---- MODULE Spec2Model ----
(***************************************************************************)
(* The commit bridge (consensus/src/state_computer.rs, ExecutionProxy) and *)
(* the state synchronizer's client handle                                  *)
(* (state-synchronizer/src/synchronizer.rs, StateSyncClient), together     *)
(* with the coordinator actor they talk to.  The coordinator's own source  *)
(* (coordinator.rs) is not among the files; its command handlers follow    *)
(* the written specification (sections 3 and 4.2).                         *)
(*                                                                         *)
(* A call is one invocation of ExecutionProxy::sync_to,                    *)
(* ExecutionProxy::commit or StateSyncClient::get_state.  calls[c] holds   *)
(* the call's future (what it awaits, what it resolved to), its one-shot   *)
(* reply channel, and what the coordinator did with its command.  The      *)
(* futures of the client are lazy: a call builds its future, and the       *)
(* command is sent when the future is first polled.                        *)
(*                                                                         *)
(* Spec is the bridge's commit and sync_to, the client and the             *)
(* coordinator, with callers that keep their futures.  DropSpec is the     *)
(* calls that await a reply, with callers that may drop their futures.     *)
(* ComputeSpec is one call of ExecutionProxy::compute.                     *)
(* ProtoSpec is one value taken through the conversions of                 *)
(* storage/storage_proto/src/lib.rs.                                       *)
(***************************************************************************)
EXTENDS Integers, Sequences, FiniteSets, TLC

\* Bounds of the model.
MaxCalls == 2
MaxVersion == 2
MaxBlocks == 1
MaxTxns == 3
MaxItems == 2

Versions == 0..MaxVersion

\* A commit carries an empty list of (payload, output) pairs or a full one.
BatchSizes == {0, MaxBlocks}

VARIABLES
  mailbox,                  \* the mpsc::unbounded channel of CoordinatorMessage
  coord_pc,                 \* the coordinator task: "idle", "syncing", "terminated"
  cur,                      \* the RequestSync in execution, NoCommand for none
  synced_version,           \* the coordinator's recorded synced version
  calls,                    \* the calls issued so far, in issue order
  LAST_COMMITTED_VERSION,   \* counters::LAST_COMMITTED_VERSION (gauge)
  STATE_SYNC_COUNT,         \* counters::STATE_SYNC_COUNT (counter)
  BLOCK_COMMIT_DURATION_S,  \* number of observations of the commit histogram
  error_log,                \* number of error! lines written
  side                      \* what the synchronizer has no part in: the call of
                            \* compute with its histograms, and the value on its
                            \* way through the storage_proto conversions

\* The call of ExecutionProxy::compute, NoCompute before it.
compute_call == side.compute_call

\* The observations of the empty-block, block-execution and per-transaction
\* histograms.
EMPTY_BLOCK_EXECUTION_DURATION_S == side.EMPTY_BLOCK_EXECUTION_DURATION_S

BLOCK_EXECUTION_DURATION_S == side.BLOCK_EXECUTION_DURATION_S

TXN_EXECUTION_DURATION_S == side.TXN_EXECUTION_DURATION_S

\* The value under conversion.
conv == side.conv

sync_vars == <<mailbox, coord_pc, cur, synced_version, calls, LAST_COMMITTED_VERSION,
               STATE_SYNC_COUNT, BLOCK_COMMIT_DURATION_S, error_log>>

vars == <<sync_vars, side>>

metrics == <<LAST_COMMITTED_VERSION, STATE_SYNC_COUNT, BLOCK_COMMIT_DURATION_S, error_log>>

(***************************************************************************)
(* Helpers of the source.                                                  *)
(***************************************************************************)

\* `version as i64` (state_computer.rs:98): the two's complement reading of a
\* u64, which is the number itself for every version below 2^63; the versions
\* of the model are all below it.
as_i64(version) == version

\* The receiving half of the mailbox lives in the coordinator task
\* (synchronizer.rs:49-56); it is gone once the task has ended.
ReceiverAlive == coord_pc # "terminated"

\* Faulty variant: a send to a dropped receiver is taken for delivered.
mpsc_send_mut(alive) == "ok"

\* sender.send(msg).await on an unbounded channel: Ok when the receiver is
\* alive, a SendError when it is gone.
mpsc_send(alive) == IF alive THEN "ok" ELSE "err"

\* Faulty variant: the message is put ahead of those already queued.
enqueue_mut(q, msg) == <<msg>> \o q

\* A successful send on the unbounded channel: the message joins the queue
\* behind those sent before it.

enqueue(q, msg) == Append(q, msg)

\* Faulty variant: the request carries the version before the target.
Requested_mut(target, c) ==
  [kind |-> "Requested", arg |-> IF target > 0 THEN target - 1 ELSE 0, cb |-> c]

\* The three variants of CoordinatorMessage as the client builds them.  cb is
\* the call that owns the message (its one-shot sender, for the two variants
\* that carry one).
Requested(target, c) == [kind |-> "Requested", arg |-> target, cb |-> c]

\* Faulty variant: the notification carries the version before the committed one.
Commit_mut(version, c) ==
  [kind |-> "Commit", arg |-> IF version > 0 THEN version - 1 ELSE 0, cb |-> c]

Commit(version, c) == [kind |-> "Commit", arg |-> version, cb |-> c]

GetState(c) == [kind |-> "GetState", arg |-> 0, cb |-> c]

NoCommand == [kind |-> "none", arg |-> 0, cb |-> 0]

\* A RequestSync for `target` is queued or in execution.
SyncUnfinished(target) ==
  \/ \E i \in 1..Len(mailbox) : mailbox[i].kind = "Requested" /\ mailbox[i].arg = target
  \/ cur.kind = "Requested" /\ cur.arg = target

\* Faulty variant: a failed send is taken for a default answer.
send_or_fail_mut(s) == [res |-> IF s = "ok" THEN "Pending" ELSE "Ok", err |-> "none"]

\* `sender.send(..).await?` of sync_to and get_state: a failed send ends the
\* future with the error, a successful one leaves it waiting for the reply.

send_or_fail(s) ==
  IF s = "ok" THEN [res |-> "Pending", err |-> "none"]
  ELSE [res |-> "Err", err |-> "SendError"]

\* Faulty variant: the status is negated on the way to the caller.
sync_to_reply_mut(slot, val) ==
  IF slot = "sent" THEN [res |-> "Ok", ret |-> ~val, err |-> "none"]
  ELSE [res |-> "Err", ret |-> FALSE, err |-> "Canceled"]

\* `let sync_status = cb_receiver.await?; Ok(sync_status)`: the value the
\* coordinator sent, or Canceled when the sender was dropped unfulfilled.

sync_to_reply(slot, val) ==
  IF slot = "sent" THEN [res |-> "Ok", ret |-> val, err |-> "none"]
  ELSE [res |-> "Err", ret |-> FALSE, err |-> "Canceled"]

\* `let info = cb_receiver.await?; Ok(info)`.
get_state_reply(slot, val) ==
  IF slot = "sent" THEN [res |-> "Ok", ret |-> val, err |-> "none"]
  ELSE [res |-> "Err", ret |-> 0, err |-> "Canceled"]

\* Faulty variant: every arm notifies the synchronizer.
commit_notifies_mut(outcome) == TRUE

\* ExecutionProxy::commit, the arms of `match commit_future.await`: only
\* Ok(Ok(())) goes on to notify the synchronizer.

commit_notifies(outcome) == outcome = "OkOk"

\* Faulty variant: the notification's error is propagated with `?`.
commit_result_mut(outcome, s) ==
  IF outcome = "OkOk" /\ s = "ok" THEN [res |-> "Ok", err |-> "none"]
  ELSE [res |-> "Err", err |-> IF outcome = "OkOk" THEN "SendError" ELSE outcome]

\* What the commit future resolves to, given the outcome of commit_blocks and
\* (in the Ok(Ok(())) arm) of synchronizer.commit(version): the notification's
\* error is logged and the arm still ends in Ok(()).

commit_result(outcome, s) ==
  IF outcome = "OkOk" THEN [res |-> "Ok", err |-> "none"]
  ELSE [res |-> "Err", err |-> outcome]

\* payload_and_output_list.into_iter().map(..).collect(): one committable
\* block per pair of the list.
committable_blocks(n) == n

\* Faulty variant: the gauge is given the version before the proof's.
commit_gauge_mut(version) == IF version = 0 THEN 0 ELSE as_i64(version) - 1

\* The value LAST_COMMITTED_VERSION.set is called with.

commit_gauge(version) == as_i64(version)

\* Faulty variant: the notification is taken for made without a send.
StateSyncClient_commit_mut(alive) == "none"

\* StateSyncClient::commit, awaited by the bridge: the future has ended when
\* `sender.send(CoordinatorMessage::Commit(version)).await?` has, with the
\* outcome of the send.

StateSyncClient_commit(alive) == mpsc_send(alive)

\* Faulty variant: dropping the future withdraws its command.
after_drop_mut(q, c) == SelectSeq(q, LAMBDA m : m.cb # c)

\* The mailbox when the future of call c is dropped: a command already sent
\* is owned by the channel and stays where it is.

after_drop(q, c) == q

\* Faulty variant: the counter is left as it was.
inc_mut(count) == count

\* counters::STATE_SYNC_COUNT.inc().

inc(count) == count + 1

(***************************************************************************)
(* The coordinator's command handlers.                                     *)
(***************************************************************************)

\* Faulty variant: the next command is taken while a catch-up is running.
takes_next_mut(pc) == pc # "terminated"

\* The task takes the next command from the mailbox only when the one before
\* it has run to completion.

takes_next(pc) == pc = "idle"

\* Faulty variant: the version the task was started with is reported.
query_state_mut(known) == 0

\* QueryState returns the current synced-version value.

query_state(known) == known

\* Faulty variant: a recorded version equal to the target is taken for behind.
request_is_noop_mut(known, target) == known > target

\* RequestSync is a no-op when the recorded version already meets the target.

request_is_noop(known, target) == known >= target

\* Faulty variant: the recorded version is overwritten.
commit_version_mut(known, version) == version

\* NotifyCommit(v) advances the recorded version to max(current, v).

commit_version(known, version) == IF version > known THEN version ELSE known

\* The recorded version after a catch-up that reached `reached`.
synced_after(known, reached) == IF reached > known THEN reached ELSE known

(***************************************************************************)
(* Calls.                                                                  *)
(***************************************************************************)

NoValue(op) == IF op = "sync_to" THEN FALSE ELSE 0

\* The commit calls that have returned Ok(()) with their notification sent.
ReturnedCommits ==
  {c \in DOMAIN calls : calls[c].op = "commit" /\ calls[c].res = "Ok" /\ calls[c].notify # "err"}

\* The highest version among them, -1 when there is none.
CommittedFloor ==
  IF ReturnedCommits = {} THEN -1
  ELSE CHOOSE v \in {calls[c].arg : c \in ReturnedCommits} :
         \A c \in ReturnedCommits : calls[c].arg <= v

NewCall(op, arg, n) ==
  [op |-> op, arg |-> arg, nblocks |-> n,
   floor |-> IF op = "commit" THEN -1 ELSE CommittedFloor,
                           \* the highest version whose commit had returned
                           \* Ok(()) when the call was made
   exec |-> "none",        \* commit_blocks: "none", "awaiting", "OkOk", "OkErr", "Err"
   exec_calls |-> 0,       \* invocations of commit_blocks
   passed |-> 0,           \* blocks handed to commit_blocks
   gauge_set |-> -1,       \* what the call set the gauge to, -1 before
   notify |-> "none",      \* synchronizer.commit: "none", "ok", "err"
   notified |-> -1,        \* the version synchronizer.commit was called with
   sent |-> "none",        \* the mailbox send: "none", "ok", "err"
   slot |-> "none",        \* the one-shot: "none", "empty", "sent", "dropped"
                           \* (sender gone), "closed" (receiver gone)
   val |-> NoValue(op),    \* the value sent on the one-shot
   res |-> "Pending",      \* the future: "Pending", "Ok", "Err", or "Dropped"
                           \* by its owner before it resolved
   ret |-> NoValue(op),    \* the value of an Ok
   err |-> "none",
   overlap |-> FALSE,      \* enqueued while a RequestSync for the same target was unfinished
   seen |-> -1,            \* the recorded version when the command was taken
   after |-> -1,           \* the recorded version when the command was finished
   catchup |-> "none"]     \* "none", "noop", "running", "ok", "failed", "aborted"

CallIds == 1..Len(calls)

SyncCalls == {c \in CallIds : calls[c].op = "sync_to"}

CommitCalls == {c \in CallIds : calls[c].op = "commit"}

GetStateCalls == {c \in CallIds : calls[c].op = "get_state"}

\* The awaiting future of call c once its one-shot is in state `slot` holding
\* `val`: the receiver is woken and `cb_receiver.await?` yields the outcome.
\* The outcome is fixed by the step that fulfils or drops the sender, so the
\* model records it in that step.
\* When the future was dropped its receiver is gone: the value comes back to
\* the sender and nobody is woken.
Resolve(call, slot, val) ==
  LET r == IF call.op = "sync_to" THEN sync_to_reply(slot, val)
           ELSE get_state_reply(slot, val)
  IN IF call.res = "Dropped" THEN [call EXCEPT !.val = val]
     ELSE [call EXCEPT !.slot = slot, !.val = val, !.res = r.res, !.ret = r.ret, !.err = r.err]

\* No call of compute has been made.
NoCompute ==
  [pc |-> "none", payload |-> [some |-> FALSE, txns |-> 0], batch |-> 0, exec_calls |-> 0,
   outcome |-> "none", elapsed |-> [secs |-> <<0, 0, 0, 0>>, nanos |-> 0],
   res |-> "Pending", err |-> "none", statuses |-> 0]

\* No value is being converted.
NoConversion ==
  [kind |-> "none", origin |-> "none", pc |-> "none",
   native |-> <<>>, wire |-> <<>>, back |-> [ok |-> FALSE, val |-> <<>>]]

\* The coordinator has just been spawned on a node whose ledger is at version
\* 0; later versions are reached by commits and catch-ups.
InitNode ==
  /\ mailbox = <<>>
  /\ coord_pc = "idle"
  /\ cur = NoCommand
  /\ synced_version = 0
  /\ calls = <<>>
  /\ LAST_COMMITTED_VERSION = 0
  /\ STATE_SYNC_COUNT = 0
  /\ BLOCK_COMMIT_DURATION_S = 0
  /\ error_log = 0

\* No call of compute has been made, nothing has been observed, no value is
\* being converted.
NoSide ==
  [compute_call |-> NoCompute,
   EMPTY_BLOCK_EXECUTION_DURATION_S |-> <<>>,
   BLOCK_EXECUTION_DURATION_S |-> <<>>,
   TXN_EXECUTION_DURATION_S |-> <<>>,
   conv |-> NoConversion]

Init == InitNode /\ side = NoSide

(***************************************************************************)
(* The client and the bridge.                                              *)
(***************************************************************************)

\* ExecutionProxy::sync_to: count the request and build the future of
\* StateSyncClient::sync_to, which owns a clone of the sender and both halves
\* of a fresh one-shot.  Nothing is sent before the future is polled.
ExecutionProxy_sync_to(target) ==
  /\ UNCHANGED side
  /\ Len(calls) < MaxCalls
  /\ STATE_SYNC_COUNT' = inc(STATE_SYNC_COUNT)
  /\ calls' = Append(calls, NewCall("sync_to", target, 0))
  /\ UNCHANGED <<mailbox, coord_pc, cur, synced_version, LAST_COMMITTED_VERSION,
                 BLOCK_COMMIT_DURATION_S, error_log>>

\* StateSyncClient::get_state builds its future the same way.
StateSyncClient_get_state ==
  /\ UNCHANGED side
  /\ Len(calls) < MaxCalls
  /\ calls' = Append(calls, NewCall("get_state", 0, 0))
  /\ UNCHANGED <<mailbox, coord_pc, cur, synced_version, metrics>>

\* The first poll of the future of sync_to or get_state: the async block
\* sends Requested(target, cb_sender) or GetState(cb_sender) and goes on to
\* await the reply; a failed send ends it.
poll_send(c) ==
  /\ UNCHANGED side
  /\ c \in SyncCalls \cup GetStateCalls
  /\ calls[c].sent = "none"
  /\ calls[c].res = "Pending"
  /\ LET s == mpsc_send(ReceiverAlive)
         f == send_or_fail(s)
         m == IF calls[c].op = "sync_to" THEN Requested(calls[c].arg, c) ELSE GetState(c)
     IN /\ calls' = [calls EXCEPT
                       ![c].sent = s,
                       ![c].overlap = (s = "ok" /\ m.kind = "Requested" /\ SyncUnfinished(m.arg)),
                       ![c].slot = IF s = "ok" THEN "empty" ELSE "dropped",
                       ![c].res = f.res, ![c].err = f.err]
        /\ mailbox' = IF s = "ok" THEN enqueue(mailbox, m) ELSE mailbox
  /\ UNCHANGED <<coord_pc, cur, synced_version, metrics>>

\* The owner of the future of sync_to or get_state drops it before it has
\* resolved.  Before the first poll the async block has not run: the sender
\* clone and both halves of the one-shot go with it and nothing is ever
\* sent.  After the send the future holds the one-shot's receiver, which is
\* dropped; the message, with the one-shot's sender in it, is the channel's.
drop_future(c) ==
  /\ UNCHANGED side
  /\ c \in SyncCalls \cup GetStateCalls
  /\ calls[c].res = "Pending"
  /\ calls' = [calls EXCEPT ![c].res = "Dropped",
                            ![c].slot = IF calls[c].sent = "none" THEN "dropped" ELSE "closed"]
  /\ mailbox' = after_drop(mailbox, c)
  /\ UNCHANGED <<coord_pc, cur, synced_version, metrics>>

\* ExecutionProxy::commit up to the async block: set the gauge, build the
\* committable blocks of the whole list and call commit_blocks with them.
ExecutionProxy_commit(version, n) ==
  /\ UNCHANGED side
  /\ Len(calls) < MaxCalls
  /\ LAST_COMMITTED_VERSION' = commit_gauge(version)
  /\ calls' = Append(calls, [NewCall("commit", version, n) EXCEPT
                 !.exec = "awaiting", !.exec_calls = 1,
                 !.passed = committable_blocks(n),
                 !.gauge_set = commit_gauge(version)])
  /\ UNCHANGED <<mailbox, coord_pc, cur, synced_version, STATE_SYNC_COUNT,
                 BLOCK_COMMIT_DURATION_S, error_log>>

\* The async block of ExecutionProxy::commit once commit_blocks has ended with
\* `outcome`: Ok(Ok(())), Ok(Err(e)) or Err(e).  In the first arm
\* StateSyncClient::commit sends Commit(version); a failed send is logged.
commit_blocks_done(c, outcome) ==
  /\ UNCHANGED side
  /\ c \in CommitCalls
  /\ calls[c].exec = "awaiting"
  /\ LET go == commit_notifies(outcome)
         s == IF go THEN StateSyncClient_commit(ReceiverAlive) ELSE "none"
         f == commit_result(outcome, s)
         m == Commit(calls[c].arg, c)
     IN /\ calls' = [calls EXCEPT ![c].exec = outcome, ![c].notify = s, ![c].sent = s,
                                  ![c].notified = IF go THEN m.arg ELSE -1,
                                  ![c].res = f.res, ![c].err = f.err]
        /\ mailbox' = IF s = "ok" THEN enqueue(mailbox, m) ELSE mailbox
        /\ BLOCK_COMMIT_DURATION_S' = IF go THEN BLOCK_COMMIT_DURATION_S + 1
                                      ELSE BLOCK_COMMIT_DURATION_S
        /\ error_log' = IF s = "err" THEN error_log + 1 ELSE error_log
  /\ UNCHANGED <<coord_pc, cur, synced_version, LAST_COMMITTED_VERSION, STATE_SYNC_COUNT>>

(***************************************************************************)
(* The coordinator task.                                                   *)
(***************************************************************************)

\* Take RequestSync(target, reply) from the mailbox.
process_requested ==
  /\ UNCHANGED side
  /\ takes_next(coord_pc)
  /\ mailbox # <<>>
  /\ Head(mailbox).kind = "Requested"
  /\ LET m == Head(mailbox)
         c == m.cb
     IN IF request_is_noop(synced_version, m.arg)
        THEN /\ calls' = [calls EXCEPT ![c] = Resolve(@, "sent", FALSE),
                                         ![c].seen = synced_version,
                                         ![c].after = synced_version,
                                         ![c].catchup = "noop"]
             /\ UNCHANGED <<coord_pc, cur>>
        ELSE /\ calls' = [calls EXCEPT ![c].seen = synced_version,
                                         ![c].catchup = "running"]
             /\ coord_pc' = "syncing"
             /\ cur' = m
  /\ mailbox' = Tail(mailbox)
  /\ UNCHANGED <<synced_version, metrics>>

\* The catch-up of the running RequestSync succeeds, having reached a version
\* at or past the target.
sync_succeeds(reached) ==
  /\ UNCHANGED side
  /\ coord_pc = "syncing"
  /\ reached >= cur.arg
  /\ synced_version' = synced_after(synced_version, reached)
  /\ calls' = [calls EXCEPT ![cur.cb] = Resolve(@, "sent", TRUE),
                             ![cur.cb].after = synced_version',
                             ![cur.cb].catchup = "ok"]
  /\ coord_pc' = "idle"
  /\ cur' = NoCommand
  /\ UNCHANGED <<mailbox, metrics>>

\* The catch-up fails: the reply sender is dropped, or the reply is fulfilled
\* with the failure (on a channel of bool: false).
sync_fails(how) ==
  /\ UNCHANGED side
  /\ coord_pc = "syncing"
  /\ calls' = [calls EXCEPT ![cur.cb] = Resolve(@, IF how = "drop" THEN "dropped" ELSE "sent", FALSE),
                             ![cur.cb].after = synced_version,
                             ![cur.cb].catchup = "failed"]
  /\ coord_pc' = "idle"
  /\ cur' = NoCommand
  /\ UNCHANGED <<mailbox, synced_version, metrics>>

\* Take NotifyCommit(version).
process_commit ==
  /\ UNCHANGED side
  /\ takes_next(coord_pc)
  /\ mailbox # <<>>
  /\ Head(mailbox).kind = "Commit"
  /\ LET m == Head(mailbox)
         c == m.cb
     IN /\ synced_version' = commit_version(synced_version, m.arg)
        /\ calls' = [calls EXCEPT ![c].seen = synced_version,
                                   ![c].after = synced_version']
  /\ mailbox' = Tail(mailbox)
  /\ UNCHANGED <<coord_pc, cur, metrics>>

\* Take QueryState(reply).
process_get_state ==
  /\ UNCHANGED side
  /\ takes_next(coord_pc)
  /\ mailbox # <<>>
  /\ Head(mailbox).kind = "GetState"
  /\ LET c == Head(mailbox).cb
     IN calls' = [calls EXCEPT ![c] = Resolve(@, "sent", query_state(synced_version)),
                                ![c].seen = synced_version,
                                ![c].after = synced_version]
  /\ mailbox' = Tail(mailbox)
  /\ UNCHANGED <<coord_pc, cur, synced_version, metrics>>

\* The task ends (an unrecoverable error, or its runtime is shut down): the
\* receiver is dropped, and with it every queued message and the reply sender
\* of the command in execution.
coordinator_terminates ==
  /\ UNCHANGED side
  /\ coord_pc # "terminated"
  /\ coord_pc' = "terminated"
  /\ cur' = NoCommand
  /\ mailbox' = <<>>
  /\ calls' = [c \in DOMAIN calls |->
                 [(IF calls[c].slot = "empty"
                   THEN Resolve(calls[c], "dropped", calls[c].val)
                   ELSE calls[c]) EXCEPT
                    !.catchup = IF calls[c].catchup = "running" THEN "aborted"
                                ELSE calls[c].catchup]]
  /\ UNCHANGED <<synced_version, metrics>>

CoordinatorStep ==
  \/ process_requested
  \/ process_commit
  \/ process_get_state
  \/ \E reached \in Versions : sync_succeeds(reached)
  \/ \E how \in {"drop", "explicit"} : sync_fails(how)

ClientStep == \E c \in CallIds : poll_send(c)

ExecStep == \E c \in CallIds : \E outcome \in {"OkOk", "OkErr", "Err"} : commit_blocks_done(c, outcome)

Next ==
  \/ \E target \in Versions : ExecutionProxy_sync_to(target)
  \/ StateSyncClient_get_state
  \/ \E version \in Versions : \E n \in BatchSizes : ExecutionProxy_commit(version, n)
  \/ ClientStep
  \/ ExecStep
  \/ CoordinatorStep
  \/ coordinator_terminates

Spec == Init /\ [][Next]_vars

\* The reply-awaiting calls, whose futures the callers may also drop, and the
\* coordinator with the commands of those calls.
DropStep == \E c \in CallIds : drop_future(c)

ReplyCommandStep ==
  \/ process_requested
  \/ process_get_state
  \/ \E reached \in Versions : sync_succeeds(reached)
  \/ \E how \in {"drop", "explicit"} : sync_fails(how)

DropNext ==
  \/ \E target \in Versions : ExecutionProxy_sync_to(target)
  \/ StateSyncClient_get_state
  \/ ClientStep
  \/ DropStep
  \/ ReplyCommandStep
  \/ coordinator_terminates

DropSpec == Init /\ [][DropNext]_vars

\* The specification under which the tasks are scheduled fairly: the runtime
\* keeps polling the coordinator task while it has a command to take or a
\* catch-up to finish.
FairSpec == Spec /\ WF_vars(CoordinatorStep)

FairDropSpec == DropSpec /\ WF_vars(ReplyCommandStep)

(***************************************************************************)
(* ExecutionProxy::compute.  A duration is a std::time::Duration, whole     *)
(* seconds (u64) and nanoseconds below a second; u64 and u128 values are    *)
(* sequences of 16-bit limbs, least significant first, so that the          *)
(* arithmetic of the source keeps its width.                                *)
(***************************************************************************)

Base == 2^16

U64Limbs == 64 \div 16

U128Limbs == 128 \div 16

NANOS_PER_SEC == 1000 * 1000 * 1000

Zero(k) == [i \in 1..k |-> 0]

\* `x as u128` of a u64.
widen(x, k) == x \o Zero(k - Len(x))

RECURSIVE MulLimbs(_, _, _, _)
MulLimbs(x, k, i, carry) ==
  IF i > Len(x) THEN <<>>
  ELSE LET v == x[i] * k + carry
       IN <<v % Base>> \o MulLimbs(x, k, i + 1, v \div Base)

\* x * k in the width of x, for a k below 2^15.
u_mul(x, k) == MulLimbs(x, k, 1, 0)

RECURSIVE AddLimbs(_, _, _)
AddLimbs(x, i, carry) ==
  IF i > Len(x) THEN <<>>
  ELSE LET v == x[i] + carry
       IN <<v % Base>> \o AddLimbs(x, i + 1, v \div Base)

\* x + k in the width of x, for a k below 2^30.
u_add(x, k) == AddLimbs(x, 1, k)

RECURSIVE DivLimbs(_, _, _, _)
DivLimbs(x, n, i, rem) ==
  IF i = 0 THEN <<>>
  ELSE LET v == rem * Base + x[i]
       IN Append(DivLimbs(x, n, i - 1, v % n), v \div n)

RECURSIVE RemLimbs(_, _, _, _)
RemLimbs(x, n, i, rem) ==
  IF i = 0 THEN rem ELSE RemLimbs(x, n, i - 1, (rem * Base + x[i]) % n)

\* Faulty variant: the duration is divided by one more than the count.
u_div_mut(x, n) == DivLimbs(x, n + 1, Len(x), 0)

\* x / n of unsigned integers (rounding down), for an n in 1 .. 2^15 - 1.

u_div(x, n) == DivLimbs(x, n, Len(x), 0)

u_rem(x, n) == RemLimbs(x, n, Len(x), 0)

\* Duration::as_nanos: secs as u128 * NANOS_PER_SEC + nanos.
as_nanos(d) ==
  u_add(u_mul(u_mul(u_mul(widen(d.secs, U128Limbs), 1000), 1000), 1000), d.nanos)

\* u64::try_from(x) of a u128: Ok(x) when the upper 64 bits are clear.
u64_try_from(x) ==
  [ok |-> \A i \in (U64Limbs + 1)..Len(x) : x[i] = 0, val |-> SubSeq(x, 1, U64Limbs)]

\* Duration::from_nanos(nanos) of a u64: nanos / NANOS_PER_SEC whole seconds
\* and nanos % NANOS_PER_SEC nanoseconds (the division is made in three
\* steps of 1000).
from_nanos(nanos) ==
  LET q1 == u_div(nanos, 1000)
      q2 == u_div(q1, 1000)
      q3 == u_div(q2, 1000)
  IN [secs |-> q3,
      nanos |-> u_rem(nanos, 1000) + 1000 * u_rem(q1, 1000) + 1000 * 1000 * u_rem(q2, 1000)]

\* u64::try_from(execution_duration.as_nanos() / num_txns as u128).
nanos_per_txn(execution_duration, num_txns) ==
  u64_try_from(u_div(as_nanos(execution_duration), num_txns))

\* block.payload(): None, or the block's list of signed transactions (its
\* length).
Payloads ==
  {[some |-> FALSE, txns |-> 0]} \cup {[some |-> TRUE, txns |-> n] : n \in 0..MaxTxns}

\* Faulty variant: a block without payload is given one placeholder transaction.
user_transactions_mut(payload) == IF payload.some THEN payload.txns ELSE 1

\* payload().unwrap_or(&Payload::default()).iter().map(UserTransaction)
\* .collect(): the batch handed to execute_block has one transaction per
\* transaction of the payload, none when there is no payload.

user_transactions(payload) == IF payload.some THEN payload.txns ELSE 0

\* The Execution Capability returns one status per transaction of the batch.
compute_status_len(batch) == batch

\* `if num_txns == 0 { EMPTY_BLOCK.. } else { BLOCK.. }`.
bucket(num_txns) == IF num_txns = 0 THEN "empty" ELSE "block"

\* Faulty variant: the duration is observed whatever the execution returned.
compute_observes_mut(outcome) == TRUE

\* The arms of `match execute_future.await`: only Ok(Ok(..)) observes.

compute_observes(outcome) == outcome = "OkOk"

\* What the compute future resolves to.
compute_result(outcome) ==
  IF outcome = "OkOk" THEN [res |-> "Ok", err |-> "none"]
  ELSE [res |-> "Err", err |-> outcome]

\* The elapsed times pre_execution_instant.elapsed() is drawn from: a grid
\* over the limbs of the seconds, and the two durations either side of
\* 2^64 nanoseconds.
Durations ==
  {[secs |-> <<a, b, c, e>>, nanos |-> ns] :
      a \in {0, Base - 1}, b \in {0, Base - 1}, c \in {0, 4, 5, Base - 1},
      e \in {0, Base - 1}, ns \in {0, 7, NANOS_PER_SEC - 1}}
  \cup {[secs |-> <<64009, 19330, 4, 0>>, nanos |-> ns] : ns \in {709551615, 709551616}}

\* ExecutionProxy::compute up to the async block: start the clock and call
\* execute_block with the batch of the block's payload.
ExecutionProxy_compute(payload) ==
  /\ compute_call.pc = "none"
  /\ side' = [side EXCEPT !.compute_call =
                 [NoCompute EXCEPT !.pc = "awaiting", !.payload = payload,
                                   !.batch = user_transactions(payload),
                                   !.exec_calls = 1]]
  /\ UNCHANGED sync_vars

\* The async block of compute once execute_block has ended with `outcome`,
\* `elapsed` after the clock was started (read in the Ok(Ok(..)) arm only).
execute_block_done(outcome, elapsed) ==
  /\ compute_call.pc = "awaiting"
  /\ LET go == compute_observes(outcome)
         num_txns == IF outcome = "OkOk" THEN compute_status_len(compute_call.batch) ELSE 0
         into == IF go THEN bucket(num_txns) ELSE "none"
         per_txn == IF into = "block" THEN nanos_per_txn(elapsed, num_txns)
                    ELSE [ok |-> FALSE, val |-> Zero(U64Limbs)]
         r == compute_result(outcome)
     IN side' = [side EXCEPT
          !.compute_call = [@ EXCEPT !.pc = "done", !.outcome = outcome,
                                     !.elapsed = elapsed, !.res = r.res,
                                     !.err = r.err, !.statuses = num_txns],
          !.EMPTY_BLOCK_EXECUTION_DURATION_S =
             IF into = "empty" THEN Append(@, elapsed) ELSE @,
          !.BLOCK_EXECUTION_DURATION_S =
             IF into = "block" THEN Append(@, elapsed) ELSE @,
          !.TXN_EXECUTION_DURATION_S =
             IF per_txn.ok THEN Append(@, from_nanos(per_txn.val)) ELSE @]
  /\ UNCHANGED sync_vars

NoDuration == [secs |-> Zero(U64Limbs), nanos |-> 0]

ComputeNext ==
  \/ \E payload \in Payloads : ExecutionProxy_compute(payload)
  \/ \E elapsed \in Durations : execute_block_done("OkOk", elapsed)
  \/ \E outcome \in {"OkErr", "Err"} : execute_block_done(outcome, NoDuration)

\* One call of compute, from the call to the resolution of its future.
ComputeSpec == Init /\ [][ComputeNext]_vars

(***************************************************************************)
(* storage_proto: the helper structs and their conversions to and from the *)
(* wire structs (storage/storage_proto/src/lib.rs).  A Result is a record   *)
(* [ok, val], an Option a record [some, val].  The conversions of the       *)
(* types of libra_types and crypto that the helpers are built from are not  *)
(* among the files; they follow the written specification (round-trip-safe, *)
(* an error for malformed input).                                           *)
(***************************************************************************)

HashLength == 32

Ok(v) == [ok |-> TRUE, val |-> v]

Failure == [ok |-> FALSE, val |-> <<>>]

None == [some |-> FALSE, val |-> <<>>]

Some(v) == [some |-> TRUE, val |-> v]

\* Option<Result<T>>::transpose.
transpose(o) ==
  IF ~o.some THEN Ok(None)
  ELSE IF o.val.ok THEN Ok(Some(o.val.val)) ELSE Failure

\* Option::unwrap_or_else(Default::default).
unwrap_or_default(o, default) == IF o.some THEN o.val ELSE default

\* collect::<Result<Vec<_>>>(): the values when all are Ok, else the error.
collect_results(rs) ==
  IF \A i \in DOMAIN rs : rs[i].ok THEN Ok([i \in DOMAIN rs |-> rs[i].val]) ELSE Failure

SeqsUpTo(S, k) == UNION {[1..n -> S] : n \in 0..k}

Bytes(b, k) == [i \in 1..k |-> b]

\* HashValue: an array of HashLength bytes.
HashValues == {[hash |-> Bytes(b, HashLength)] : b \in {0, 255}}

\* HashValue::to_vec.
to_vec(h) == h.hash

\* HashValue::from_slice: the hash of a slice of HashLength bytes, an error
\* for any other length.
from_slice(bytes) == IF Len(bytes) = HashLength THEN Ok([hash |-> bytes]) ELSE Failure

\* libra_types::ledger_info::LedgerInfo and its wire struct.
LedgerInfos == {[version |-> v, consensus_data_hash |-> h] : v \in Versions, h \in HashValues}

LedgerInfo_into_proto(info) ==
  [version |-> info.version, consensus_data_hash |-> to_vec(info.consensus_data_hash)]

LedgerInfo_try_from(proto) ==
  LET h == from_slice(proto.consensus_data_hash)
  IN IF h.ok THEN Ok([version |-> proto.version, consensus_data_hash |-> h.val]) ELSE Failure

\* Default::default() of the wire struct of LedgerInfo.
LedgerInfo_default_proto == [version |-> 0, consensus_data_hash |-> <<>>]

\* LedgerInfoWithSignatures and its wire struct; the signatures by their number.
LedgerInfosWithSignatures ==
  {[ledger_info |-> li, signatures |-> n] : li \in LedgerInfos, n \in {0, 1}}

LedgerInfoWithSignatures_into_proto(x) ==
  [ledger_info |-> Some(LedgerInfo_into_proto(x.ledger_info)), signatures |-> x.signatures]

LedgerInfoWithSignatures_try_from(proto) ==
  LET li == LedgerInfo_try_from(unwrap_or_default(proto.ledger_info, LedgerInfo_default_proto))
  IN IF li.ok THEN Ok([ledger_info |-> li.val, signatures |-> proto.signatures]) ELSE Failure

\* TransactionToCommit and its wire struct.
TransactionsToCommit == {[txn |-> t] : t \in {1, 2}}

TransactionToCommit_into_proto(t) == [transaction |-> Some(t.txn)]

TransactionToCommit_try_from(proto) ==
  IF proto.transaction.some THEN Ok([txn |-> proto.transaction.val]) ELSE Failure

\* impl From<GetTransactionsRequest> for proto::storage::GetTransactionsRequest.
GetTransactionsRequest_into_proto(request) ==
  [start_version |-> request.start_version,
   batch_size |-> request.batch_size,
   ledger_version |-> request.ledger_version,
   fetch_events |-> request.fetch_events]

\* impl TryFrom<proto::storage::GetTransactionsRequest> for GetTransactionsRequest.
GetTransactionsRequest_try_from(proto) ==
  Ok([start_version |-> proto.start_version,
      batch_size |-> proto.batch_size,
      ledger_version |-> proto.ledger_version,
      fetch_events |-> proto.fetch_events])

\* impl From<SaveTransactionsRequest> for proto::storage::SaveTransactionsRequest.
SaveTransactionsRequest_into_proto(request) ==
  [txns_to_commit |-> [i \in DOMAIN request.txns_to_commit |-> TransactionToCommit_into_proto(request.txns_to_commit[i])],
   first_version |-> request.first_version,
   ledger_info_with_signatures |->
     (IF request.ledger_info_with_signatures.some THEN Some(LedgerInfoWithSignatures_into_proto(request.ledger_info_with_signatures.val)) ELSE None)]

\* impl TryFrom<proto::storage::SaveTransactionsRequest> for SaveTransactionsRequest.
SaveTransactionsRequest_try_from(proto) ==
  LET txns_to_commit ==
        collect_results([i \in DOMAIN proto.txns_to_commit |-> TransactionToCommit_try_from(proto.txns_to_commit[i])])
      ledger_info_with_signatures ==
        transpose((IF proto.ledger_info_with_signatures.some THEN Some(LedgerInfoWithSignatures_try_from(proto.ledger_info_with_signatures.val)) ELSE None))
  IN IF ~txns_to_commit.ok THEN Failure
     ELSE IF ~ledger_info_with_signatures.ok THEN Failure
     ELSE Ok([txns_to_commit |-> txns_to_commit.val,
              first_version |-> proto.first_version,
              ledger_info_with_signatures |-> ledger_info_with_signatures.val])

\* Faulty variant: the frozen subtree hashes are left out of the wire struct.
StartupInfo_into_proto_mut(info) ==
  [ledger_info |-> Some(LedgerInfo_into_proto(info.ledger_info)),
   latest_version |-> info.latest_version,
   account_state_root_hash |-> to_vec(info.account_state_root_hash),
   ledger_frozen_subtree_hashes |-> <<>>]

\* impl From<StartupInfo> for proto::storage::StartupInfo.

StartupInfo_into_proto(info) ==
  [ledger_info |-> Some(LedgerInfo_into_proto(info.ledger_info)),
   latest_version |-> info.latest_version,
   account_state_root_hash |-> to_vec(info.account_state_root_hash),
   ledger_frozen_subtree_hashes |-> [i \in DOMAIN info.ledger_frozen_subtree_hashes |-> to_vec(info.ledger_frozen_subtree_hashes[i])]]

\* impl TryFrom<proto::storage::StartupInfo> for StartupInfo.
StartupInfo_try_from(proto) ==
  LET ledger_info ==
        LedgerInfo_try_from(unwrap_or_default(proto.ledger_info, LedgerInfo_default_proto))
      account_state_root_hash == from_slice(proto.account_state_root_hash)
      ledger_frozen_subtree_hashes ==
        collect_results([i \in DOMAIN proto.ledger_frozen_subtree_hashes |-> from_slice(proto.ledger_frozen_subtree_hashes[i])])
  IN IF ~ledger_info.ok THEN Failure
     ELSE IF ~account_state_root_hash.ok THEN Failure
     ELSE IF ~ledger_frozen_subtree_hashes.ok THEN Failure
     ELSE Ok([ledger_info |-> ledger_info.val,
              latest_version |-> proto.latest_version,
              account_state_root_hash |-> account_state_root_hash.val,
              ledger_frozen_subtree_hashes |-> ledger_frozen_subtree_hashes.val])

\* impl From<GetStartupInfoResponse> for proto::storage::GetStartupInfoResponse.
GetStartupInfoResponse_into_proto(response) ==
  [info |-> (IF response.info.some THEN Some(StartupInfo_into_proto(response.info.val)) ELSE None)]

\* impl TryFrom<proto::storage::GetStartupInfoResponse> for GetStartupInfoResponse.
GetStartupInfoResponse_try_from(proto) ==
  LET info == transpose((IF proto.info.some THEN Some(StartupInfo_try_from(proto.info.val)) ELSE None))
  IN IF ~info.ok THEN Failure ELSE Ok([info |-> info.val])

\* impl From<GetLatestLedgerInfosPerEpochRequest> for its wire struct.
GetLatestLedgerInfosPerEpochRequest_into_proto(request) ==
  [start_epoch |-> request.start_epoch]

\* impl TryFrom<..> for GetLatestLedgerInfosPerEpochRequest.
GetLatestLedgerInfosPerEpochRequest_try_from(proto) ==
  Ok([start_epoch |-> proto.start_epoch])

\* impl From<GetLatestLedgerInfosPerEpochResponse> for its wire struct.
GetLatestLedgerInfosPerEpochResponse_into_proto(response) ==
  [latest_ledger_infos |->
     [i \in DOMAIN response.latest_ledger_infos |-> LedgerInfoWithSignatures_into_proto(response.latest_ledger_infos[i])]]

\* impl TryFrom<..> for GetLatestLedgerInfosPerEpochResponse.
GetLatestLedgerInfosPerEpochResponse_try_from(proto) ==
  LET latest_ledger_infos ==
        collect_results([i \in DOMAIN proto.latest_ledger_infos |-> LedgerInfoWithSignatures_try_from(proto.latest_ledger_infos[i])])
  IN IF ~latest_ledger_infos.ok THEN Failure
     ELSE Ok([latest_ledger_infos |-> latest_ledger_infos.val])

\* The values of the helper structs.
GetTransactionsRequests ==
  {[start_version |-> a, batch_size |-> b, ledger_version |-> c, fetch_events |-> f] :
      a \in Versions, b \in Versions, c \in Versions, f \in BOOLEAN}

SaveTransactionsRequests ==
  {[txns_to_commit |-> t, first_version |-> v, ledger_info_with_signatures |-> l] :
      t \in SeqsUpTo(TransactionsToCommit, MaxItems), v \in Versions,
      l \in {None} \cup {Some(x) : x \in LedgerInfosWithSignatures}}

StartupInfos ==
  {[ledger_info |-> li, latest_version |-> v, account_state_root_hash |-> h,
    ledger_frozen_subtree_hashes |-> f] :
      li \in LedgerInfos, v \in Versions, h \in HashValues,
      f \in SeqsUpTo(HashValues, MaxItems)}

GetStartupInfoResponses == {[info |-> i] : i \in {None} \cup {Some(x) : x \in StartupInfos}}

GetLatestLedgerInfosPerEpochRequests == {[start_epoch |-> e] : e \in Versions}

GetLatestLedgerInfosPerEpochResponses ==
  {[latest_ledger_infos |-> l] : l \in SeqsUpTo(LedgerInfosWithSignatures, MaxItems)}

\* Byte strings that are not a hash: empty, one byte short, one byte long.
MalformedHashes == {<<>>, Bytes(0, HashLength - 1), Bytes(0, HashLength + 1)}

\* Wire structs of StartupInfo with a malformed hash, as the root hash or
\* last among the frozen subtree hashes.
MalformedStartupInfos ==
  {[StartupInfo_into_proto(x) EXCEPT !.account_state_root_hash = b] :
      x \in StartupInfos, b \in MalformedHashes}
  \cup {[StartupInfo_into_proto(x) EXCEPT
            !.ledger_frozen_subtree_hashes = Append(@, b)] :
      x \in StartupInfos, b \in MalformedHashes}

Helper(kind, r) ==
  [kind |-> kind, origin |-> "helper", pc |-> "helper", native |-> r, wire |-> <<>>,
   back |-> Failure]

Wire(kind, proto) ==
  [kind |-> kind, origin |-> "wire", pc |-> "wire", native |-> <<>>, wire |-> proto,
   back |-> Failure]

ConversionInputs ==
  {Helper("GetTransactionsRequest", r) : r \in GetTransactionsRequests}
  \cup {Helper("SaveTransactionsRequest", r) : r \in SaveTransactionsRequests}
  \cup {Helper("StartupInfo", r) : r \in StartupInfos}
  \cup {Helper("GetStartupInfoResponse", r) : r \in GetStartupInfoResponses}
  \cup {Helper("GetLatestLedgerInfosPerEpochRequest", r) :
          r \in GetLatestLedgerInfosPerEpochRequests}
  \cup {Helper("GetLatestLedgerInfosPerEpochResponse", r) :
          r \in GetLatestLedgerInfosPerEpochResponses}
  \cup {Wire("StartupInfo", proto) : proto \in MalformedStartupInfos}

\* `.into()` of a helper struct.
into_proto(kind, r) ==
  CASE kind = "GetTransactionsRequest" -> GetTransactionsRequest_into_proto(r)
    [] kind = "SaveTransactionsRequest" -> SaveTransactionsRequest_into_proto(r)
    [] kind = "StartupInfo" -> StartupInfo_into_proto(r)
    [] kind = "GetStartupInfoResponse" -> GetStartupInfoResponse_into_proto(r)
    [] kind = "GetLatestLedgerInfosPerEpochRequest" ->
         GetLatestLedgerInfosPerEpochRequest_into_proto(r)
    [] kind = "GetLatestLedgerInfosPerEpochResponse" ->
         GetLatestLedgerInfosPerEpochResponse_into_proto(r)

\* `try_from` of a wire struct.
try_from(kind, proto) ==
  CASE kind = "GetTransactionsRequest" -> GetTransactionsRequest_try_from(proto)
    [] kind = "SaveTransactionsRequest" -> SaveTransactionsRequest_try_from(proto)
    [] kind = "StartupInfo" -> StartupInfo_try_from(proto)
    [] kind = "GetStartupInfoResponse" -> GetStartupInfoResponse_try_from(proto)
    [] kind = "GetLatestLedgerInfosPerEpochRequest" ->
         GetLatestLedgerInfosPerEpochRequest_try_from(proto)
    [] kind = "GetLatestLedgerInfosPerEpochResponse" ->
         GetLatestLedgerInfosPerEpochResponse_try_from(proto)

\* A helper struct is converted to its wire struct.
convert_into ==
  /\ conv.pc = "helper"
  /\ side' = [side EXCEPT !.conv = [@ EXCEPT !.pc = "wire",
                                             !.wire = into_proto(conv.kind, conv.native)]]
  /\ UNCHANGED sync_vars

\* A wire struct is parsed.
convert_try_from ==
  /\ conv.pc = "wire"
  /\ side' = [side EXCEPT !.conv = [@ EXCEPT !.pc = "parsed",
                                             !.back = try_from(conv.kind, conv.wire)]]
  /\ UNCHANGED sync_vars

ProtoInit == InitNode /\ side \in {[NoSide EXCEPT !.conv = c] : c \in ConversionInputs}

ProtoNext == convert_into \/ convert_try_from

\* One value through the conversions: a helper struct to the wire and back,
\* or a wire struct parsed.
ProtoSpec == ProtoInit /\ [][ProtoNext]_vars

(***************************************************************************)
(* Properties.                                                             *)
(***************************************************************************)

Max(a, b) == IF a > b THEN a ELSE b

CommitMessagesOf(c) ==
  {i \in 1..Len(mailbox) : mailbox[i].kind = "Commit" /\ mailbox[i].cb = c}

\* C1: a sync_to whose command is taken when the recorded version is already
\* at or past the target is answered false, runs no catch-up and leaves the
\* recorded version as it was; the caller sees Ok(false).
C1_SyncToAlreadySynced ==
  \A c \in SyncCalls :
    (calls[c].seen >= calls[c].arg) =>
      /\ calls[c].catchup = "noop"
      /\ calls[c].slot = "sent"
      /\ calls[c].val = FALSE
      /\ calls[c].res = "Ok"
      /\ calls[c].ret = FALSE
      /\ calls[c].after = calls[c].seen

\* A commit raised the recorded version to the target, and the sync_to behind
\* it found nothing to do.
C1_Witness ==
  \E c \in SyncCalls : \E d \in CommitCalls :
    /\ calls[c].arg > 0
    /\ calls[d].seen >= 0
    /\ calls[d].seen < calls[c].arg
    /\ calls[d].after >= calls[c].arg
    /\ calls[c].seen >= calls[d].after
    /\ calls[c].res = "Ok"

\* C2: a processed NotifyCommit(v) leaves the recorded version at
\* max(current, v), so a lower v leaves it where it was, and has no reply; a
\* completed catch-up never lowers the recorded version.
C2_NotifyCommitIsMax ==
  /\ \A c \in CommitCalls :
       (calls[c].seen >= 0) =>
         /\ calls[c].after = Max(calls[c].seen, calls[c].arg)
         /\ (calls[c].arg < calls[c].seen => calls[c].after = calls[c].seen)
         /\ calls[c].slot = "none"
         /\ synced_version >= calls[c].after
  /\ \A c \in SyncCalls :
       (calls[c].after >= 0) =>
         /\ calls[c].after >= calls[c].seen
         /\ synced_version >= calls[c].after

\* Two commits were processed, the second with a lower version than the first
\* had recorded.
C2_Witness ==
  \E c \in CommitCalls : \E d \in CommitCalls :
    /\ c # d
    /\ calls[c].seen >= 0
    /\ calls[c].after = calls[c].arg
    /\ calls[c].seen < calls[c].arg
    /\ calls[d].seen = calls[c].after
    /\ calls[d].arg < calls[d].seen
    /\ synced_version = calls[c].arg

ProcessesCommit ==
  /\ coord_pc = "idle"
  /\ coord_pc' = "idle"
  /\ mailbox # <<>>
  /\ Head(mailbox).kind = "Commit"
  /\ mailbox' = Tail(mailbox)

CompletesCatchUp ==
  /\ coord_pc = "syncing"
  /\ coord_pc' = "idle"
  /\ calls'[cur.cb].catchup = "ok"

\* C3: the recorded version never decreases, and a step changes it only by
\* processing a NotifyCommit or by completing a catch-up.
C3_SyncedVersionMonotone ==
  [][/\ synced_version' >= synced_version
     /\ (synced_version' # synced_version) => (ProcessesCommit \/ CompletesCatchUp)]_vars

\* The recorded version was raised once by a commit and once by a catch-up.
C3_Witness ==
  \E c \in CommitCalls : \E d \in SyncCalls :
    /\ calls[c].seen >= 0
    /\ calls[c].after > calls[c].seen
    /\ calls[d].catchup = "ok"
    /\ calls[d].after > calls[d].seen

\* C4: a catch-up that succeeds leaves the recorded version at or past the
\* target and answers true, and true is never the answer while the recorded
\* version is below the target.
C4_SyncReachesTarget ==
  \A c \in SyncCalls :
    /\ (calls[c].catchup = "ok") =>
         /\ calls[c].seen < calls[c].arg
         /\ calls[c].after >= calls[c].arg
         /\ calls[c].slot = "sent"
         /\ calls[c].val = TRUE
         /\ calls[c].res = "Ok"
         /\ calls[c].ret = TRUE
    /\ (calls[c].slot = "sent" /\ calls[c].val = TRUE) => synced_version >= calls[c].arg
    /\ (calls[c].res = "Ok" /\ calls[c].ret = TRUE) => synced_version >= calls[c].arg

\* A catch-up to the highest version succeeded from below it.
C4_Witness ==
  \E c \in SyncCalls :
    /\ calls[c].catchup = "ok"
    /\ calls[c].seen < calls[c].arg
    /\ calls[c].arg = MaxVersion
    /\ calls[c].ret = TRUE

SameTarget(c, d) == c # d /\ calls[c].arg = calls[d].arg

Processed(c) == calls[c].catchup \in {"noop", "ok"}

\* C5: of two sync_to calls for one target, at least one of which was taken
\* below the target, exactly one runs a catch-up when no catch-up fails; and
\* under fair scheduling every sync_to call that was sent resolves.
C5_ConcurrentSyncTo ==
  /\ [](\A c \in SyncCalls : \A d \in SyncCalls :
          (/\ SameTarget(c, d)
           /\ Processed(c)
           /\ Processed(d)
           /\ (calls[c].seen < calls[c].arg \/ calls[d].seen < calls[d].arg))
          => ((calls[c].catchup = "ok") # (calls[d].catchup = "ok")))
  /\ []<>(\A c \in SyncCalls : calls[c].sent = "none" \/ calls[c].res # "Pending")

\* The second call was enqueued while the first was unfinished, both below
\* the target, and both got their answer.
C5_Witness ==
  \E c \in SyncCalls : \E d \in SyncCalls :
    /\ SameTarget(c, d)
    /\ c < d
    /\ calls[d].overlap
    /\ calls[c].seen < calls[c].arg
    /\ calls[c].catchup = "ok"
    /\ calls[d].catchup = "noop"
    /\ calls[c].res = "Ok"
    /\ calls[d].res = "Ok"

\* C6: a commit whose commit_blocks succeeded resolves to Ok(()) whether or
\* not the notification could be sent; a failed notification is logged.
C6_CommitSurvivesNotifyFailure ==
  /\ \A c \in CommitCalls :
       (calls[c].exec = "OkOk") => (calls[c].res = "Ok" /\ calls[c].notify \in {"ok", "err"})
  /\ error_log = Cardinality({c \in CommitCalls : calls[c].notify = "err"})

\* commit_blocks succeeded after the coordinator had gone.
C6_Witness ==
  \E c \in CommitCalls :
    /\ calls[c].exec = "OkOk"
    /\ calls[c].notify = "err"
    /\ calls[c].res = "Ok"
    /\ error_log = 1

\* C7: commit calls commit_blocks once with the whole list; a failure of
\* commit_blocks is the caller's error and no NotifyCommit is sent for the
\* call; a NotifyCommit is sent only after commit_blocks succeeded, once.
C7_CommitAllOrNothing ==
  \A c \in CommitCalls :
    /\ calls[c].exec_calls = 1
    /\ calls[c].passed = calls[c].nblocks
    /\ (calls[c].exec \in {"OkErr", "Err"}) =>
         /\ calls[c].res = "Err"
         /\ calls[c].err = calls[c].exec
    /\ (calls[c].exec # "OkOk") =>
         /\ calls[c].notify = "none"
         /\ CommitMessagesOf(c) = {}
         /\ calls[c].seen = -1
    /\ (calls[c].exec = "awaiting") => calls[c].res = "Pending"
    /\ Cardinality(CommitMessagesOf(c)) <= 1
    /\ (calls[c].seen >= 0 \/ calls[c].notify = "err") => CommitMessagesOf(c) = {}

\* commit_blocks failed in both ways, once for a non-empty batch, while the
\* coordinator was alive to be notified.
C7_Witness ==
  \E c \in CommitCalls : \E d \in CommitCalls :
    /\ calls[c].exec = "OkErr"
    /\ calls[d].exec = "Err"
    /\ calls[c].nblocks > 0
    /\ calls[c].res = "Err"
    /\ calls[d].res = "Err"
    /\ ReceiverAlive

LastCommitCall == CHOOSE c \in CommitCalls : \A d \in CommitCalls : d <= c

\* C8: a commit that resolves to Ok(()) set the gauge to its finality proof's
\* version and called synchronizer.commit with that version, whatever the
\* size of its batch; the gauge holds the version of the latest commit call.
C8_CommitGaugeAndNotify ==
  /\ \A c \in CommitCalls :
       (calls[c].res = "Ok") =>
         /\ calls[c].gauge_set = calls[c].arg
         /\ calls[c].notified = calls[c].arg
         /\ \A i \in CommitMessagesOf(c) : mailbox[i].arg = calls[c].arg
  /\ (CommitCalls # {}) => LAST_COMMITTED_VERSION = calls[LastCommitCall].arg

\* A commit of an empty batch succeeded and its notification is in the
\* mailbox.
C8_Witness ==
  \E c \in CommitCalls :
    /\ calls[c].res = "Ok"
    /\ calls[c].nblocks = 0
    /\ calls[c].arg > 0
    /\ CommitMessagesOf(c) # {}
    /\ LAST_COMMITTED_VERSION = calls[c].arg

\* C9 as claimed: the sync_to call of a failed catch-up resolves with an
\* error.
C9_FailedSyncIsError ==
  \A c \in SyncCalls : (calls[c].catchup = "failed") => calls[c].res = "Err"

\* C10: sync_to and get_state resolve to an error when the send fails and
\* when the reply sender is dropped unfulfilled; they resolve to Ok(v) only
\* when the coordinator sent v on the call's one-shot.
C10_ReplyErrors ==
  \A c \in SyncCalls \cup GetStateCalls :
    /\ (calls[c].sent = "err") => (calls[c].res = "Err" /\ calls[c].err = "SendError")
    /\ (calls[c].sent = "ok" /\ calls[c].slot = "dropped") =>
         (calls[c].res = "Err" /\ calls[c].err = "Canceled")
    /\ (calls[c].res = "Ok") => (calls[c].slot = "sent" /\ calls[c].ret = calls[c].val)
    /\ (calls[c].slot = "empty") => calls[c].res = "Pending"

\* One call lost its reply sender when the coordinator ended, the next could
\* not send at all.
C10_Witness ==
  \E c \in SyncCalls : \E d \in GetStateCalls :
    /\ calls[c].sent = "ok"
    /\ calls[c].err = "Canceled"
    /\ calls[d].err = "SendError"

ReplyCalls == SyncCalls \cup GetStateCalls

\* Call c makes its send in this step: the first poll of a sync_to or
\* get_state future, or the StateSyncClient::commit of a commit call.
SendsIn(c) ==
  IF calls[c].op = "commit"
  THEN calls[c].notify = "none" /\ calls'[c].notify # "none"
  ELSE calls[c].sent = "none" /\ calls'[c].sent # "none"

\* C11: while the coordinator task is ended no sent call is left waiting; the
\* calls that were waiting for a reply when it ended resolved with an error
\* in that step; and every send made after it has ended fails: sync_to and
\* get_state resolve to the SendError, StateSyncClient::commit returns it.
C11_FailStop ==
  /\ [](coord_pc = "terminated" =>
          /\ mailbox = <<>>
          /\ \A c \in ReplyCalls : calls[c].sent # "none" => calls[c].res # "Pending")
  /\ [][/\ (coord_pc # "terminated" /\ coord_pc' = "terminated") =>
            \A c \in ReplyCalls :
              (calls[c].res = "Pending" /\ calls[c].sent = "ok") =>
                (calls'[c].res = "Err" /\ calls'[c].err = "Canceled")
        /\ (coord_pc = "terminated") =>
            \A c \in CallIds :
              SendsIn(c) =>
                IF calls[c].op = "commit"
                THEN calls'[c].notify = "err" /\ calls'[c].seen = -1
                ELSE calls'[c].res = "Err" /\ calls'[c].err = "SendError"]_vars

\* The task ended with a call waiting for its reply, and a commit made after
\* that could not notify it.
C11_Witness ==
  /\ coord_pc = "terminated"
  /\ \E c \in ReplyCalls : \E d \in CommitCalls :
       /\ calls[c].sent = "ok"
       /\ calls[c].seen = -1
       /\ calls[c].res = "Err"
       /\ calls[c].err = "Canceled"
       /\ calls[d].notify = "err"

\* C12: the counter holds the number of ExecutionProxy::sync_to calls made,
\* whatever became of them, and no other operation moves it; a sync_to taken
\* when the recorded version equals its target returns Ok(false).
C12_SyncCounter ==
  /\ STATE_SYNC_COUNT = Cardinality(SyncCalls)
  /\ \A c \in SyncCalls :
       (calls[c].seen = calls[c].arg) => (calls[c].res = "Ok" /\ calls[c].ret = FALSE)

\* Two sync_to calls were counted: one found the recorded version equal to
\* its target, the other could not reach the coordinator.
C12_Witness ==
  /\ STATE_SYNC_COUNT = 2
  /\ \E c \in SyncCalls : \E d \in SyncCalls :
       /\ calls[c].seen = calls[c].arg
       /\ calls[c].res = "Ok"
       /\ calls[c].ret = FALSE
       /\ calls[d].sent = "err"
       /\ calls[d].res = "Err"

\* The coordinator takes the command of call c in this step.
Takes(c) == calls[c].seen = -1 /\ calls'[c].seen # -1

Running == {c \in CallIds : calls[c].catchup = "running"}

\* C16: a command is taken only from the head of the mailbox and only when
\* no command is in execution, one per step; the mailbox loses commands only
\* that way (or all of them when the task ends); at most one catch-up is
\* running, the one the task is executing; and the recorded version is
\* written only by a step of the coordinator, never by a step of a caller.
C16_OneAtATime ==
  /\ [](/\ (coord_pc = "syncing") <=> (cur # NoCommand)
        /\ Running = IF coord_pc = "syncing" THEN {cur.cb} ELSE {})
  /\ [][/\ \A c \in CallIds :
              Takes(c) =>
                /\ coord_pc = "idle"
                /\ Running = {}
                /\ mailbox # <<>>
                /\ Head(mailbox).cb = c
                /\ mailbox' = Tail(mailbox)
                /\ \A d \in CallIds \ {c} : ~Takes(d)
        /\ (Len(mailbox') < Len(mailbox)) =>
              \/ coord_pc' = "terminated"
              \/ mailbox' = Tail(mailbox) /\ \E c \in CallIds : Takes(c)
        /\ (synced_version' # synced_version) =>
              /\ Len(calls') = Len(calls)
              /\ \A c \in CallIds : ~SendsIn(c) /\ calls'[c].exec = calls[c].exec
              /\ ProcessesCommit \/ CompletesCatchUp]_vars

\* A catch-up is running while a NotifyCommit of a higher version waits
\* behind it at the head of the mailbox.
C16_Witness ==
  /\ coord_pc = "syncing"
  /\ Len(mailbox) >= 1
  /\ Head(mailbox).kind = "Commit"
  /\ Head(mailbox).arg > synced_version
  /\ calls[cur.cb].catchup = "running"

\* The commands of call c in the mailbox.
MessagesOf(c) == {i \in 1..Len(mailbox) : mailbox[i].cb = c}

\* The commands of call c the coordinator holds: queued, in execution, done.
Held(c) ==
  Cardinality(MessagesOf(c))
    + (IF cur.cb = c THEN 1 ELSE 0)
    + (IF calls[c].after # -1 THEN 1 ELSE 0)

\* C17 as amended: the mailbox keeps the order of the sends.  A send puts one
\* command, that of the sending call, behind all those queued, and commands
\* leave from the head; while the coordinator is alive a call whose send
\* succeeded has exactly one command queued, in execution or done, and a
\* call that has not sent has none.
C17_SendOrderIsDeliveryOrder ==
  /\ [](\A c \in CallIds :
          /\ (calls[c].sent = "ok" /\ ReceiverAlive) => Held(c) = 1
          /\ (calls[c].sent # "ok") => Held(c) = 0)
  /\ [][/\ \A c \in CallIds :
              (SendsIn(c) /\ calls'[c].sent = "ok") =>
                /\ Len(mailbox') = Len(mailbox) + 1
                /\ SubSeq(mailbox', 1, Len(mailbox)) = mailbox
                /\ mailbox'[Len(mailbox')].cb = c
                /\ mailbox'[Len(mailbox')].arg = calls[c].arg
        /\ (Len(mailbox') > Len(mailbox)) => \E c \in CallIds : SendsIn(c)
        /\ \A c \in CallIds : Takes(c) => (Head(mailbox).cb = c /\ mailbox' = Tail(mailbox))]_vars

\* Of two calls made in order the later was polled first: its command has
\* been taken while the earlier call's command waits at the head.
C17_Witness ==
  \E c \in ReplyCalls : \E d \in ReplyCalls :
    /\ c < d
    /\ calls[d].seen # -1
    /\ calls[c].sent = "ok"
    /\ calls[c].seen = -1
    /\ mailbox # <<>>
    /\ Head(mailbox).cb = c

\* C17 as claimed: of two calls made in order on the handle, the command of
\* the later is not delivered before that of the earlier.
C17_ProgramOrder ==
  \A c \in ReplyCalls : \A d \in ReplyCalls :
    (c < d /\ calls[d].sent = "ok" /\ ReceiverAlive) =>
      /\ calls[c].sent = "ok"
      /\ (calls[d].seen # -1) => (calls[c].seen # -1)

\* C18 as claimed: the gauge shows a version only once a commit call with
\* that version has had its commit_blocks succeed (the gauge starts at 0).
C18_GaugeOnSuccess ==
  (LAST_COMMITTED_VERSION # 0) =>
    \E c \in CommitCalls :
      /\ calls[c].arg = LAST_COMMITTED_VERSION
      /\ calls[c].exec = "OkOk"

\* C19 as claimed: no step lowers the gauge.
C19_GaugeMonotone ==
  [][LAST_COMMITTED_VERSION' >= LAST_COMMITTED_VERSION]_vars

EmptyPayload(payload) == ~payload.some \/ payload.txns = 0

\* C13: a compute of a block whose payload is empty or absent hands
\* execute_block a batch of no transactions, and when it succeeds its one
\* observation is in the empty-block histogram, none in the other two.
C13_EmptyBlock ==
  (compute_call.pc # "none" /\ EmptyPayload(compute_call.payload)) =>
    /\ compute_call.batch = 0
    /\ compute_call.exec_calls = 1
    /\ (compute_call.outcome = "OkOk") =>
         /\ compute_call.res = "Ok"
         /\ compute_call.statuses = 0
         /\ EMPTY_BLOCK_EXECUTION_DURATION_S = <<compute_call.elapsed>>
         /\ BLOCK_EXECUTION_DURATION_S = <<>>
         /\ TXN_EXECUTION_DURATION_S = <<>>

\* A block without payload was computed in more than a second.
C13_Witness ==
  /\ compute_call.pc = "done"
  /\ ~compute_call.payload.some
  /\ compute_call.res = "Ok"
  /\ Len(EMPTY_BLOCK_EXECUTION_DURATION_S) = 1
  /\ EMPTY_BLOCK_EXECUTION_DURATION_S[1].secs # Zero(U64Limbs)

\* C14: compute calls execute_block once; when execute_block fails, in
\* either way, the future resolves to that error, carries no output, and
\* nothing is observed in any of the three histograms.
C14_ComputeNoRetry ==
  /\ (compute_call.pc # "none") => compute_call.exec_calls = 1
  /\ (compute_call.pc = "awaiting") => compute_call.res = "Pending"
  /\ (compute_call.outcome \in {"OkErr", "Err"}) =>
       /\ compute_call.res = "Err"
       /\ compute_call.err = compute_call.outcome
       /\ compute_call.statuses = 0
       /\ EMPTY_BLOCK_EXECUTION_DURATION_S = <<>>
       /\ BLOCK_EXECUTION_DURATION_S = <<>>
       /\ TXN_EXECUTION_DURATION_S = <<>>

\* The asynchronous call itself failed for a block with transactions.
C14_Witness ==
  /\ compute_call.pc = "done"
  /\ compute_call.outcome = "Err"
  /\ compute_call.payload.txns > 0
  /\ compute_call.res = "Err"
  /\ compute_call.exec_calls = 1

\* floor(d / n) is below 2^64, that is d is below n * 2^64: the upper half
\* of d, as a number, is below n.
FitsU64(d, n) ==
  /\ d[U64Limbs + 1] < n
  /\ \A i \in (U64Limbs + 2)..U128Limbs : d[i] = 0

\* q = floor(d / n): d = q * n + r for some r in 0 .. n - 1.
IsQuotient(q, d, n) == \E r \in 0..(n - 1) : u_add(u_mul(q, n), r) = d

\* C20: a successful compute with n > 0 statuses observes the elapsed
\* duration d in the block-execution histogram; it observes a per-transaction
\* duration exactly when floor(d_nanos / n) fits a u64, and that duration is
\* floor(d_nanos / n) nanoseconds; when it does not fit nothing is observed
\* there and the future still resolves to Ok.
C20_PerTxnDuration ==
  /\ (compute_call.outcome = "OkOk") => compute_call.res = "Ok"
  /\ (compute_call.res = "Ok" /\ compute_call.statuses > 0) =>
       LET n == compute_call.statuses
           d == as_nanos(compute_call.elapsed)
       IN /\ n = compute_call.payload.txns
          /\ BLOCK_EXECUTION_DURATION_S = <<compute_call.elapsed>>
          /\ EMPTY_BLOCK_EXECUTION_DURATION_S = <<>>
          /\ IF FitsU64(d, n)
             THEN /\ Len(TXN_EXECUTION_DURATION_S) = 1
                  /\ TXN_EXECUTION_DURATION_S[1].nanos < NANOS_PER_SEC
                  /\ IsQuotient(as_nanos(TXN_EXECUTION_DURATION_S[1]), d, n)
             ELSE TXN_EXECUTION_DURATION_S = <<>>

\* Three transactions took so long that the duration of one is past a u64
\* of nanoseconds: the block was observed, the transaction was not.
C20_Witness ==
  /\ compute_call.res = "Ok"
  /\ compute_call.statuses = 3
  /\ Len(BLOCK_EXECUTION_DURATION_S) = 1
  /\ TXN_EXECUTION_DURATION_S = <<>>

\* C15: a helper struct converted to its wire struct and parsed back is
\* Ok and equal to the struct; a wire struct of StartupInfo with a malformed
\* hash is parsed to an error.
C15_RoundTrip ==
  (conv.pc = "parsed") =>
    IF conv.origin = "helper"
    THEN conv.back.ok /\ conv.back.val = conv.native
    ELSE ~conv.back.ok

\* A GetStartupInfoResponse holding a StartupInfo with frozen subtree hashes
\* has been to the wire and back.
C15_Witness ==
  /\ conv.pc = "parsed"
  /\ conv.kind = "GetStartupInfoResponse"
  /\ conv.native.info.some
  /\ Len(conv.native.info.val.ledger_frozen_subtree_hashes) = MaxItems
  /\ conv.back.ok

(***************************************************************************)
(* Read-your-commit, dropped futures, get_state.                           *)
(***************************************************************************)

\* C21: a get_state made after a commit of version v has returned Ok(()) with
\* the coordinator alive returns no value below v, and a sync_to made after
\* it for a target at or below v runs no catch-up and returns no value but
\* false; the commit returns Ok(()) in the step that puts its NotifyCommit(v)
\* behind the commands queued, and from then on the notification is queued
\* or has been processed into the recorded version.
C21_ReadYourCommit ==
  /\ [](/\ \A d \in GetStateCalls :
             /\ (calls[d].seen # -1) => calls[d].seen >= calls[d].floor
             /\ (calls[d].res = "Ok") => calls[d].ret >= calls[d].floor
        /\ \A d \in SyncCalls :
             (calls[d].arg <= calls[d].floor) =>
               /\ calls[d].catchup \in {"none", "noop"}
               /\ (calls[d].res = "Ok") => calls[d].ret = FALSE
        /\ \A c \in ReturnedCommits :
             ReceiverAlive =>
               \/ MessagesOf(c) # {}
               \/ calls[c].after >= calls[c].arg /\ synced_version >= calls[c].arg)
  /\ [][\A c \in CommitCalls :
          (calls[c].res = "Pending" /\ calls'[c].res = "Ok" /\ ReceiverAlive) =>
            mailbox' = Append(mailbox, Commit(calls[c].arg, c))]_vars

\* A commit of version 2 returned Ok(()); the get_state made after it has
\* returned 2.
C21_Witness ==
  \E c \in ReturnedCommits : \E d \in GetStateCalls :
    /\ calls[c].arg = 2
    /\ calls[c].notify = "ok"
    /\ calls[d].floor = 2
    /\ calls[d].res = "Ok"
    /\ calls[d].ret = 2

\* C22 as amended: dropping the future of a sync_to or get_state whose
\* command has been sent touches neither the mailbox nor the coordinator;
\* while the coordinator is alive the command stays queued, in execution or
\* done, and it is taken and run as that of a live call: a get_state reads
\* the recorded version, a sync_to for a met target is a no-op, one for an
\* unmet target runs its catch-up, whose success advances the recorded
\* version to the target or past it; the reply finds no receiver, nobody is
\* woken, and the coordinator is left idle, not ended.  Unless the
\* coordinator ends, every such command runs to completion and the mailbox
\* is drained.  A future dropped before its first poll has sent nothing and
\* never will.
C22_DroppedAfterSendStillRuns ==
  /\ [](\A c \in ReplyCalls :
          (calls[c].res = "Dropped") =>
            /\ calls[c].sent # "err"
            /\ (calls[c].sent = "ok" /\ ReceiverAlive) => Held(c) = 1
            /\ (calls[c].sent = "none") => (Held(c) = 0 /\ calls[c].seen = -1))
  /\ [][\A c \in ReplyCalls :
          /\ (calls[c].res = "Pending" /\ calls'[c].res = "Dropped") =>
                UNCHANGED <<mailbox, cur, coord_pc, synced_version>>
          /\ (calls[c].res = "Dropped") =>
                /\ calls'[c].res = "Dropped"
                /\ calls'[c].ret = calls[c].ret
                /\ calls'[c].sent = calls[c].sent
          /\ (calls[c].res = "Dropped" /\ Takes(c)) =>
                /\ calls'[c].seen = synced_version
                /\ IF calls[c].op = "get_state"
                   THEN /\ calls'[c].val = synced_version
                        /\ calls'[c].after = synced_version
                        /\ synced_version' = synced_version
                        /\ coord_pc' = "idle"
                   ELSE IF synced_version >= calls[c].arg
                        THEN /\ calls'[c].catchup = "noop"
                             /\ calls'[c].val = FALSE
                             /\ calls'[c].after = synced_version
                             /\ coord_pc' = "idle"
                        ELSE /\ calls'[c].catchup = "running"
                             /\ coord_pc' = "syncing"
                             /\ cur'.cb = c
          /\ (calls[c].res = "Dropped" /\ calls[c].catchup = "running"
                /\ calls'[c].catchup = "ok") =>
                /\ synced_version' >= calls[c].arg
                /\ calls'[c].after = synced_version'
                /\ calls'[c].val = TRUE
                /\ coord_pc' = "idle"]_vars
  /\ []<>(\/ ~ReceiverAlive
          \/ /\ mailbox = <<>>
             /\ cur = NoCommand
             /\ \A c \in ReplyCalls :
                  (calls[c].res = "Dropped" /\ calls[c].sent = "ok") => calls[c].after # -1)

\* The future of a sync_to for an unmet target was dropped after its send;
\* the catch-up has run and advanced the recorded version to the target, and
\* the coordinator has gone on to answer the get_state behind it.
C22_Witness ==
  \E c \in SyncCalls : \E d \in GetStateCalls :
    /\ calls[c].res = "Dropped"
    /\ calls[c].sent = "ok"
    /\ calls[c].seen < calls[c].arg
    /\ calls[c].catchup = "ok"
    /\ calls[c].val = TRUE
    /\ calls[c].slot = "closed"
    /\ synced_version = calls[c].arg
    /\ ReceiverAlive
    /\ calls[d].res = "Ok"
    /\ calls[d].ret = calls[c].arg

\* C22 as claimed: while the coordinator is alive the command of every
\* dropped sync_to or get_state future runs to completion.
C22_DropDoesNotCancel ==
  []<>(\/ ~ReceiverAlive
       \/ \A c \in ReplyCalls : (calls[c].res = "Dropped") => calls[c].after # -1)

\* C23: a get_state whose command is taken resolves in that step to Ok(v),
\* v the recorded version of that moment: the commands sent ahead of it have
\* all been taken and run to completion, those behind it are still queued
\* and untaken; the step takes the command off the mailbox and changes
\* nothing else of the coordinator, the counters or the other calls.  A
\* get_state resolves to an error only when the coordinator has ended, and
\* every get_state that was sent resolves.
C23_GetState ==
  /\ [](\A d \in GetStateCalls :
          /\ (calls[d].res = "Ok") =>
                /\ calls[d].seen # -1
                /\ calls[d].ret = calls[d].seen
                /\ calls[d].after = calls[d].seen
          /\ (calls[d].res = "Err") => coord_pc = "terminated"
          /\ (calls[d].seen # -1) => calls[d].res = "Ok")
  /\ [][\A d \in GetStateCalls :
          Takes(d) =>
            /\ calls'[d].res = "Ok"
            /\ calls'[d].ret = synced_version
            /\ calls'[d].seen = synced_version
            /\ coord_pc = "idle"
            /\ cur = NoCommand
            /\ Head(mailbox).cb = d
            /\ mailbox' = Tail(mailbox)
            /\ UNCHANGED <<synced_version, coord_pc, cur, metrics>>
            /\ \A e \in CallIds \ {d} :
                 /\ calls'[e] = calls[e]
                 /\ (MessagesOf(e) # {}) => calls[e].seen = -1
                 /\ (calls[e].sent = "ok" /\ MessagesOf(e) = {}) => calls[e].after # -1]_vars
  /\ []<>(\A d \in GetStateCalls : calls[d].sent = "none" \/ calls[d].res # "Pending")

\* A get_state sent behind a NotifyCommit(2) was answered with the version
\* the notification had left, 2.
C23_Witness ==
  \E c \in CommitCalls : \E d \in GetStateCalls :
    /\ c < d
    /\ calls[c].arg = 2
    /\ calls[c].seen = 0
    /\ calls[d].seen = 2
    /\ calls[d].res = "Ok"
    /\ calls[d].ret = 2
    /\ ReceiverAlive

====
